---- MODULE Spec2Model ----
(***************************************************************************)
(* The fixture pipeline of chot: the Content Producer                      *)
(* (content_generator.py), the Fixture Builder, Pattern Builder, Injector  *)
(* and Batch Splitter (file_operations.py) and the caller (cli.py).        *)
(*                                                                         *)
(* Text is modelled character for character as TLA+ strings; the file      *)
(* system is a function from path to content, together with the set of     *)
(* directories made and the history of writes.                             *)
(***************************************************************************)
EXTENDS Integers, Sequences, FiniteSets, TLC

VARIABLES
    fs,          \* file system: path |-> content
    dirs,        \* directories made by os.makedirs
    log,         \* history of writes: the paths written, in order
    files,       \* the list of (filename, size) tuples handed to the Injector
    patterns,    \* the list returned by create_edit_patterns
    test_cases,  \* the list returned by inject_patterns_into_files
    call,        \* the last call observed: its name, arguments, result, error
    stage,       \* how far the caller has come
    gen          \* the Content Producer's locals while it runs

vars == <<fs, dirs, log, files, patterns, test_cases, call, stage, gen>>

(***************************************************************************)
(* Bounds of the model.                                                    *)
(***************************************************************************)
MaxShortLen == 9     \* source contents of every length 0..MaxShortLen
MaxEdits == 3        \* edit counts 0..MaxEdits
MaxBatch == 3        \* max_edits_per_batch 1..MaxBatch
MaxSizeKb == 1       \* file sizes up to MaxSizeKb KB

(***************************************************************************)
(* Python built-ins, as the code uses them.                                *)
(***************************************************************************)
Min(S) == CHOOSE x \in S : \A y \in S : x <= y
Max(S) == CHOOSE x \in S : \A y \in S : x >= y

\* A slice bound k of s[:k] / s[k:] : negative counts from the end, then clamped.
PyIndex(s, k) ==
    IF k < 0 THEN (IF Len(s) + k < 0 THEN 0 ELSE Len(s) + k)
    ELSE (IF k > Len(s) THEN Len(s) ELSE k)

\* s[:k]
SliceTo(s, k) == SubSeq(s, 1, PyIndex(s, k))

\* s[k:]
SliceFrom(s, k) == SubSeq(s, PyIndex(s, k) + 1, Len(s))

\* list[i:j] for 0 <= i
ListSlice(l, i, j) ==
    LET hi == PyIndex(l, j)
        lo == PyIndex(l, i)
    IN  IF lo >= hi THEN <<>> ELSE [k \in 1..(hi - lo) |-> l[lo + k]]

\* the character of s at 1-based position p
CharAt(s, p) == SubSeq(s, p, p)

\* sub (non-empty) occurs in s at 1-based position p
Occurs(s, sub, p) ==
    /\ p >= 1
    /\ p + Len(sub) - 1 <= Len(s)
    /\ CharAt(s, p) = CharAt(sub, 1)
    /\ SubSeq(s, p, p + Len(sub) - 1) = sub

\* the positions at which sub (non-empty) occurs in s
Occurrences(s, sub) ==
    LET c == CharAt(sub, 1)
        n == Len(sub)
    IN  {p \in 1..(Len(s) - n + 1) : CharAt(s, p) = c /\ SubSeq(s, p, p + n - 1) = sub}

\* sub in s
Contains(s, sub) == Occurrences(s, sub) # {}

\* s.count(sub) for the delimiters, which cannot overlap themselves
Count(s, sub) == Cardinality(Occurrences(s, sub))

\* str.replace(old, new): every occurrence, left to right, non-overlapping
RECURSIVE str_replace(_, _, _)
str_replace(s, old, new) ==
    LET occ == Occurrences(s, old)
    IN  IF occ = {} THEN s
        ELSE LET p == Min(occ)
             IN  SubSeq(s, 1, p - 1) \o new
                     \o str_replace(SubSeq(s, p + Len(old), Len(s)), old, new)

\* c * n: c repeated n times
RECURSIVE Fill(_, _)
Fill(c, n) ==
    IF n = 0 THEN ""
    ELSE LET h == Fill(c, n \div 2)
         IN  IF n % 2 = 0 THEN h \o h ELSE h \o h \o c

\* f"{n}" for an int
str(n) == ToString(n)

DigitChars == "0123456789"
IsDigit(c) == \E d \in 1..10 : CharAt(DigitChars, d) = c
DigitValue(c) == (CHOOSE d \in 1..10 : CharAt(DigitChars, d) = c) - 1

\* int(s) for a string of decimal digits
RECURSIVE int(_)
int(s) ==
    IF Len(s) = 0 THEN 0
    ELSE int(SubSeq(s, 1, Len(s) - 1)) * 10 + DigitValue(CharAt(s, Len(s)))

\* sorted(list of ints)
sorted(l) == SortSeq(l, <)

\* the elements of a set of positions in ascending order
RECURSIVE Ascending(_)
Ascending(S) ==
    IF S = {} THEN <<>> ELSE <<Min(S)>> \o Ascending(S \ {Min(S)})

\* os.path.join(a, b) for a relative b
os_path_join(a, b) == a \o "/" \o b

\* os.path.basename(p)
os_path_basename(p) ==
    LET slashes == Occurrences(p, "/")
    IN  IF slashes = {} THEN p ELSE SubSeq(p, Max(slashes) + 1, Len(p))

(***************************************************************************)
(* The file system.                                                        *)
(***************************************************************************)
\* os.makedirs(d, exist_ok=True)
makedirs(w, d) == [w EXCEPT !.dirs = @ \cup {d}]

\* with open(path, "w") as f: f.write(content)
write(w, path, content) ==
    [w EXCEPT !.fs = (path :> content) @@ @, !.log = Append(@, path)]

\* with open(path, "r") as f: f.read()
read(w, path) == w.fs[path]

(***************************************************************************)
(* Content Producer.                                                       *)
(*                                                                         *)
(* A TLA+ string literal cannot hold the grave accent, so the tilde, which *)
(* the generator never emits, stands for it.  Every random letter is drawn *)
(* as LETTER: no letter is one of the characters # | or the grave accent,  *)
(* and only the lengths drawn decide where those characters fall.          *)
(***************************************************************************)
BYTES_PER_KB == 1024
FENCE == "~~~"
CODE_OPEN == FENCE \o "python\n"
LETTER == "x"

\* sep.join(parts)
RECURSIVE Join(_, _)
Join(sep, parts) ==
    IF Len(parts) = 0 THEN ""
    ELSE IF Len(parts) = 1 THEN parts[1]
    ELSE parts[1] \o sep \o Join(sep, Tail(parts))

\* sep.join of n >= 1 copies of part
JoinCopies(sep, part, n) == Fill(part \o sep, n - 1) \o part

\* one outcome of the random draws of one iteration: every paragraph gets the
\* same length and every word and cell the same number of letters
Outcome(hl, hn, np, pl, wl, cl, tr, ce) ==
    [heading_level |-> hl, heading_len |-> hn, n_paragraphs |-> np,
     paragraph_length |-> pl, word_len |-> wl, code_lines |-> cl,
     table_rows |-> tr, cell_len |-> ce]

\* each of the four parts of a section at its shortest or at its longest
Outcomes ==
    {Outcome(h[1], h[2], p[1], p[2], p[3], c, t[1], t[2]) :
        h \in {<<1, 5>>, <<3, 20>>},
        p \in {<<1, 100, 3>>, <<5, 500, 10>>},
        c \in {5, 20},
        t \in {<<3, 5>>, <<8, 10>>}}

Shortest == Outcome(1, 5, 1, 100, 3, 5, 3, 5)
Longest == Outcome(3, 20, 5, 500, 10, 20, 8, 10)

Heading(rnd) == Fill("#", rnd.heading_level) \o " " \o Fill(LETTER, rnd.heading_len)

Paragraph(rnd) ==
    JoinCopies(" ", Fill(LETTER, rnd.word_len), rnd.paragraph_length \div 5)

CodeBlock(rnd) ==
    CODE_OPEN
        \o Fill("def function_" \o Fill(LETTER, 5) \o "():\n"
                    \o "    " \o "return " \o Fill(LETTER, 8) \o "\n",
                rnd.code_lines)
        \o FENCE \o "\n"

Table(rnd) ==
    "| " \o Join(" | ", [i \in 1..5 |-> "Header" \o str(i)]) \o " |\n"
        \o "| " \o JoinCopies(" | ", "---", 5) \o " |\n"
        \o Fill("| " \o JoinCopies(" | ", Fill(LETTER, rnd.cell_len), 5) \o " |\n",
                rnd.table_rows)

Section(rnd) ==
    Heading(rnd) \o "\n\n" \o JoinCopies("\n\n", Paragraph(rnd), rnd.n_paragraphs)
        \o "\n\n" \o CodeBlock(rnd) \o "\n" \o Table(rnd) \o "\n\n"

\* the locals on entry
GenEntry(size_kb) ==
    [pc |-> "loop", size_kb |-> size_kb, chars_needed |-> size_kb * BYTES_PER_KB,
     sections |-> <<>>, chars_generated |-> 0, ret |-> ""]

\* one iteration of the while loop
GenIteration(g, rnd) ==
    [g EXCEPT !.sections = Append(@, Section(rnd)),
              !.chars_generated = @ + Len(Section(rnd))]

\* GenResult without the trim
GenResultUntrimmed(g) == Join("", g.sections)

\* return "".join(sections)[:chars_needed]
GenResult(g) == SliceTo(Join("", g.sections), g.chars_needed)

\* the whole call, every iteration drawing the outcome rnd
RECURSIVE GenLoop(_, _)
GenLoop(g, rnd) ==
    IF g.chars_generated < g.chars_needed THEN GenLoop(GenIteration(g, rnd), rnd)
    ELSE GenResult(g)

generate_random_markdown_content(size_kb, rnd) == GenLoop(GenEntry(size_kb), rnd)

GenIdle == [pc |-> "idle"]

(***************************************************************************)
(* Fixture Builder.                                                        *)
(***************************************************************************)
TestFilename(base_dir, size) == base_dir \o "/test_file_" \o str(size) \o "kb.md"

\* for size in sizes_kb, from 1-based index k on; rnds[k] is the outcome drawn
\* for the k-th file
RECURSIVE CreateFiles(_, _, _, _, _)
CreateFiles(st, sizes_kb, base_dir, rnds, k) ==
    IF k > Len(sizes_kb) THEN st
    ELSE LET filename == TestFilename(base_dir, sizes_kb[k])
         IN  CreateFiles(
                 [w |-> write(st.w, filename,
                              generate_random_markdown_content(sizes_kb[k], rnds[k])),
                  created_files |-> Append(st.created_files, <<filename, sizes_kb[k]>>)],
                 sizes_kb, base_dir, rnds, k + 1)

create_test_files(w, sizes_kb, base_dir, rnds) ==
    LET st == CreateFiles([w |-> makedirs(w, base_dir), created_files |-> <<>>],
                          sizes_kb, base_dir, rnds, 1)
    IN  [w |-> st.w, ret |-> st.created_files]

(***************************************************************************)
(* Pattern Builder.                                                        *)
(***************************************************************************)
MARKER_START(i) == "<!--UNIQUE_MARKER_" \o str(i) \o "_START-->"
MARKER_END(i) == "<!--UNIQUE_MARKER_" \o str(i) \o "_END-->"

original(i) ==
    MARKER_START(i) \o "\nThis is original text " \o str(i) \o "\n" \o MARKER_END(i)

replacement(i) ==
    MARKER_START(i) \o "\nThis is replacement text " \o str(i) \o "\n" \o MARKER_END(i)

\* Pattern with the marker ids counted from 1
PatternFromOne(n) ==
    [name |-> "pattern_" \o str(n) \o "_edits",
     replacements |->
        [k \in 1..n |-> [original |-> original(k), replacement |-> replacement(k)]]]

\* the pattern for one count n: range(n) is empty for n <= 0
Pattern(n) ==
    [name |-> "pattern_" \o str(n) \o "_edits",
     replacements |->
        [k \in 1..n |-> [original |-> original(k - 1), replacement |-> replacement(k - 1)]]]

create_edit_patterns(num_edits) ==
    [k \in 1..Len(num_edits) |-> Pattern(num_edits[k])]

(***************************************************************************)
(* Injector.                                                               *)
(***************************************************************************)
\* one splice: the block goes in at insert_pos of the content as it is now
Splice(modified_content, insert_pos, snippet) ==
    SliceTo(modified_content, insert_pos) \o "\n\n" \o snippet \o "\n\n"
        \o SliceFrom(modified_content, insert_pos)

\* the loop over enumerate(pattern["replacements"]), from 0-based index i on
RECURSIVE InjectReplacements(_, _, _, _)
InjectReplacements(modified_content, replacements, chunk_size, i) ==
    IF i >= Len(replacements) THEN modified_content
    ELSE InjectReplacements(
             Splice(modified_content, (i + 1) * chunk_size, replacements[i + 1].original),
             replacements, chunk_size, i + 1)

\* InjectedContent with half the chunk size
InjectedContentHalfChunk(content, pattern) ==
    InjectReplacements(content, pattern.replacements,
                       (Len(content) \div (Len(pattern.replacements) + 1)) \div 2, 0)

\* the content written for one (file, pattern) pair
InjectedContent(content, pattern) ==
    InjectReplacements(content, pattern.replacements,
                       Len(content) \div (Len(pattern.replacements) + 1), 0)

PatternFilename(filename, pattern, output_dir) ==
    os_path_join(output_dir,
        str_replace(os_path_basename(filename), ".md", "") \o "_" \o pattern.name \o ".md")

TestCase(filename, size, pattern, output_dir) ==
    [filename |-> PatternFilename(filename, pattern, output_dir),
     file_size_kb |-> size,
     num_edits |-> Len(pattern.replacements),
     pattern_name |-> pattern.name]

\* the inner loop, for pattern in patterns, from 1-based index p on
RECURSIVE InjectPatterns(_, _, _, _, _, _)
InjectPatterns(st, file, content, pats, output_dir, p) ==
    IF p > Len(pats) THEN st
    ELSE LET tc == TestCase(file[1], file[2], pats[p], output_dir)
         IN  InjectPatterns(
                 [w |-> write(st.w, tc.filename, InjectedContent(content, pats[p])),
                  test_cases |-> Append(st.test_cases, tc)],
                 file, content, pats, output_dir, p + 1)

\* InjectFiles taking the files last to first
RECURSIVE InjectFilesReversed(_, _, _, _, _)
InjectFilesReversed(st, fls, pats, output_dir, f) ==
    IF f > Len(fls) THEN st
    ELSE LET file == fls[Len(fls) - f + 1]
         IN  InjectFilesReversed(
                 InjectPatterns(st, file, read(st.w, file[1]), pats, output_dir, 1),
                 fls, pats, output_dir, f + 1)

\* the outer loop, for filename, size in files, from 1-based index f on
RECURSIVE InjectFiles(_, _, _, _, _)
InjectFiles(st, fls, pats, output_dir, f) ==
    IF f > Len(fls) THEN st
    ELSE InjectFiles(
             InjectPatterns(st, fls[f], read(st.w, fls[f][1]), pats, output_dir, 1),
             fls, pats, output_dir, f + 1)

ManifestHeader ==
    "# Test Cases for GitHub Copilot Response Testing\n\n"
        \o "| Filename | File Size (KB) | Number of Edits | Pattern Name |\n"
        \o "|----------|---------------|----------------|-------------|\n"

ManifestRow(case) ==
    "| " \o os_path_basename(case.filename) \o " | " \o str(case.file_size_kb)
        \o " | " \o str(case.num_edits) \o " | " \o case.pattern_name \o " |\n"

RECURSIVE ManifestRows(_, _)
ManifestRows(cases, k) ==
    IF k > Len(cases) THEN "" ELSE ManifestRow(cases[k]) \o ManifestRows(cases, k + 1)

ManifestPath(output_dir) == os_path_join(output_dir, "test_cases.md")

inject_patterns_into_files(w, fls, pats, output_dir) ==
    LET st == InjectFiles([w |-> makedirs(w, output_dir), test_cases |-> <<>>],
                          fls, pats, output_dir, 1)
    IN  [w |-> write(st.w, ManifestPath(output_dir),
                     ManifestHeader \o ManifestRows(st.test_cases, 1)),
         ret |-> st.test_cases]

(***************************************************************************)
(* Batch Splitter.                                                         *)
(***************************************************************************)
MarkerPrefix == "<!--UNIQUE_MARKER_"
StartSuffix == "_START-->"

\* \d+ from position q: the length of the longest run of digits
DigitRun(s, q) ==
    CHOOSE k \in 0..(Len(s) - q + 1) :
        /\ \A j \in 0..(k - 1) : IsDigit(CharAt(s, q + j))
        /\ q + k > Len(s) \/ ~IsDigit(CharAt(s, q + k))

\* the positions at which <!--UNIQUE_MARKER_(\d+)_START--> matches
StartMatches(s) ==
    {p \in Occurrences(s, MarkerPrefix) :
        LET q == p + Len(MarkerPrefix)
            d == DigitRun(s, q)
        IN  d >= 1 /\ Occurs(s, StartSuffix, q + d)}

\* re.findall(r"<!--UNIQUE_MARKER_(\d+)_START-->", content): the captured
\* groups, in the order of the matches
re_findall_START(content) ==
    LET ps == Ascending(StartMatches(content))
    IN  [k \in 1..Len(ps) |->
            LET q == ps[k] + Len(MarkerPrefix)
            IN  SubSeq(content, q, q + DigitRun(content, q) - 1)]

\* markers = sorted([int(m) for m in markers])
MarkersOf(content) ==
    LET found == re_findall_START(content)
    IN  sorted([k \in 1..Len(found) |-> int(found[k])])

\* re.sub(pre + ".*?" + suf, "", s, flags=re.DOTALL): the leftmost match starts at
\* the first pre that has a suf after it and ends with the nearest such suf; the
\* scan goes on after the match
RECURSIVE re_sub_span(_, _, _)
re_sub_span(s, pre, suf) ==
    LET sufs == Occurrences(s, suf)
        ends(p) == {q \in sufs : q >= p + Len(pre)}
        starts == {p \in Occurrences(s, pre) : ends(p) # {}}
    IN  IF starts = {} THEN s
        ELSE LET p == Min(starts)
                 q == Min(ends(p))
             IN  SubSeq(s, 1, p - 1)
                     \o re_sub_span(SubSeq(s, q + Len(suf), Len(s)), pre, suf)

\* marker_pattern for one marker, applied to batch_content
RemoveMarker(batch_content, marker) ==
    re_sub_span(batch_content, "\n\n" \o MARKER_START(marker),
                MARKER_END(marker) \o "\n\n")

\* for marker in removed_markers, from 1-based index k on
RECURSIVE RemoveMarkers(_, _, _)
RemoveMarkers(batch_content, removed_markers, k) ==
    IF k > Len(removed_markers) THEN batch_content
    ELSE RemoveMarkers(RemoveMarker(batch_content, removed_markers[k]),
                       removed_markers, k + 1)

\* m in batch_markers
InList(l, m) == \E k \in 1..Len(l) : l[k] = m

BatchFilename(test_case, output_dir, batch_idx) ==
    os_path_join(output_dir,
        str_replace(os_path_basename(test_case.filename), ".md", "")
            \o "_batch" \o str(batch_idx + 1) \o ".md")

BatchRecord(test_case, output_dir, batch_idx, batch_markers) ==
    [filename |-> BatchFilename(test_case, output_dir, batch_idx),
     file_size_kb |-> test_case.file_size_kb,
     num_edits |-> Len(batch_markers),
     pattern_name |-> test_case.pattern_name \o "_batch" \o str(batch_idx + 1),
     original_test_case |-> test_case.filename,
     batch_markers |-> batch_markers]

\* BatchMarkers with a slice one short
BatchMarkersShort(markers, i, max_edits_per_batch) ==
    ListSlice(markers, i, i + max_edits_per_batch - 1)

\* batch_markers = markers[i : i + max_edits_per_batch]
BatchMarkers(markers, i, max_edits_per_batch) ==
    ListSlice(markers, i, i + max_edits_per_batch)

\* PassThrough with a strict comparison
PassThroughStrict(markers, max_edits_per_batch) ==
    Len(markers) < max_edits_per_batch

\* if len(markers) <= max_edits_per_batch: return [test_case]
PassThrough(markers, max_edits_per_batch) ==
    Len(markers) <= max_edits_per_batch

\* the content written for one batch
BatchContent(content, markers, batch_markers) ==
    RemoveMarkers(content,
                  SelectSeq(markers, LAMBDA m : ~InList(batch_markers, m)), 1)

\* for batch_idx, i in enumerate(range(0, len(markers), max_edits_per_batch)),
\* for a step max_edits_per_batch > 0, from batch_idx on
RECURSIVE BatchLoop(_, _, _, _, _, _, _)
BatchLoop(st, test_case, content, markers, max_edits_per_batch, output_dir, batch_idx) ==
    LET i == batch_idx * max_edits_per_batch
    IN  IF i >= Len(markers) THEN st
        ELSE LET batch_markers == BatchMarkers(markers, i, max_edits_per_batch)
                 rec == BatchRecord(test_case, output_dir, batch_idx, batch_markers)
             IN  BatchLoop(
                     [w |-> write(st.w, rec.filename,
                                  BatchContent(content, markers, batch_markers)),
                      batches |-> Append(st.batches, rec)],
                     test_case, content, markers, max_edits_per_batch, output_dir,
                     batch_idx + 1)

\* the result is [w, ret, err]: err is "none" or the exception raised
create_batched_test_files(w, test_case, max_edits_per_batch, output_dir) ==
    LET w1 == makedirs(w, output_dir)
        content == read(w1, test_case.filename)
        markers == MarkersOf(content)
    IN  IF PassThrough(markers, max_edits_per_batch)
            THEN [w |-> w1, ret |-> <<test_case>>, err |-> "none"]
        ELSE IF max_edits_per_batch = 0
            \* range() arg 3 must not be zero
            THEN [w |-> w1, ret |-> <<>>, err |-> "ValueError"]
        ELSE IF max_edits_per_batch < 0
            \* range(0, k, step) is empty for a negative step
            THEN [w |-> w1, ret |-> <<>>, err |-> "none"]
        ELSE LET st == BatchLoop([w |-> w1, batches |-> <<>>], test_case, content,
                                 markers, max_edits_per_batch, output_dir, 0)
             IN  [w |-> st.w, ret |-> st.batches, err |-> "none"]

(***************************************************************************)
(* The file operations as a caller uses them: a source file of any content *)
(* is handed to the Injector with the patterns of the Pattern Builder, and *)
(* a test case of the result to the Batch Splitter.                        *)
(***************************************************************************)
SOURCE_DIR == "response_test_files"
PATTERN_DIR == "response_test_files_with_patterns"
BATCH_DIR == "batched_test_files"

\* the block the Injector inserts for marker i
Block(i) == "\n\n" \o original(i) \o "\n\n"

\* a Markdown-like source text of length n: words and blank lines in turn
SourceUnit == "ab\n\n"
Text(n) == SliceTo(Fill(SourceUnit, n \div Len(SourceUnit) + 1), n)

\* the length at which, for two edits, the second block is spliced into the
\* middle of the END delimiter of the first
EndSplitLen == 3 * (Len(Block(0)) - 2 - Len(MARKER_END(0)) \div 2)

\* every short length, for each edit count n the least length whose chunk size
\* holds a whole block, and EndSplitLen
SourceLens ==
    (0..MaxShortLen) \cup {(n + 1) * Len(Block(n)) : n \in 1..MaxEdits}
        \cup {EndSplitLen}

Contents == {Text(l) : l \in SourceLens}

\* the edit-count lists handed to create_edit_patterns
EditLists == {<<a>> : a \in 0..MaxEdits} \cup {<<a, b>> : a, b \in 0..MaxEdits}

World == [fs |-> fs, dirs |-> dirs, log |-> log]

NoCall == [op |-> "none"]

Init ==
    /\ fs = <<>>
    /\ dirs = {}
    /\ log = <<>>
    /\ files = <<>>
    /\ patterns = <<>>
    /\ test_cases = <<>>
    /\ call = NoCall
    /\ stage = "start"
    /\ gen = GenIdle

\* the caller's source file: the files argument of inject_patterns_into_files
ProvideFiles(content) ==
    /\ stage = "start"
    /\ LET path == os_path_join(SOURCE_DIR, "test_file_1kb.md")
           w == write(makedirs(World, SOURCE_DIR), path, content)
       IN  /\ fs' = w.fs
           /\ dirs' = w.dirs
           /\ log' = w.log
           /\ files' = <<<<path, 1>>>>
    /\ stage' = "files"
    /\ UNCHANGED <<patterns, test_cases, call, gen>>

CallCreateEditPatterns(num_edits) ==
    /\ stage = "files"
    /\ patterns' = create_edit_patterns(num_edits)
    /\ call' = [op |-> "create_edit_patterns", num_edits |-> num_edits]
    /\ stage' = "patterns"
    /\ UNCHANGED <<fs, dirs, log, files, test_cases, gen>>

CallInject ==
    /\ stage = "patterns"
    /\ LET r == inject_patterns_into_files(World, files, patterns, PATTERN_DIR)
       IN  /\ fs' = r.w.fs
           /\ dirs' = r.w.dirs
           /\ log' = r.w.log
           /\ test_cases' = r.ret
    /\ call' = [op |-> "inject_patterns_into_files"]
    /\ stage' = "injected"
    /\ UNCHANGED <<files, patterns, gen>>

CallCreateBatched(k, m) ==
    /\ stage = "injected"
    /\ LET r == create_batched_test_files(World, test_cases[k], m, BATCH_DIR)
       IN  /\ fs' = r.w.fs
           /\ dirs' = r.w.dirs
           /\ log' = r.w.log
           /\ call' = [op |-> "create_batched_test_files", test_case |-> test_cases[k],
                       max_edits_per_batch |-> m, ret |-> r.ret, err |-> r.err]
    /\ stage' = "batched"
    /\ UNCHANGED <<files, patterns, test_cases, gen>>

Next ==
    \/ \E content \in Contents : ProvideFiles(content)
    \/ \E num_edits \in EditLists : CallCreateEditPatterns(num_edits)
    \/ CallInject
    \/ \E k \in 1..Len(test_cases), m \in 1..MaxBatch : CallCreateBatched(k, m)

Spec == Init /\ [][Next]_vars

(***************************************************************************)
(* The Content Producer, one loop iteration at a time.                     *)
(***************************************************************************)
GenCall(size_kb) ==
    /\ gen.pc = "idle"
    /\ gen' = GenEntry(size_kb)
    /\ UNCHANGED <<fs, dirs, log, files, patterns, test_cases, call, stage>>

GenIterate(rnd) ==
    /\ gen.pc = "loop"
    /\ gen.chars_generated < gen.chars_needed
    /\ gen' = GenIteration(gen, rnd)
    /\ UNCHANGED <<fs, dirs, log, files, patterns, test_cases, call, stage>>

GenReturn ==
    /\ gen.pc = "loop"
    /\ ~(gen.chars_generated < gen.chars_needed)
    /\ gen' = [gen EXCEPT !.pc = "done", !.ret = GenResult(gen)]
    /\ UNCHANGED <<fs, dirs, log, files, patterns, test_cases, call, stage>>

GenNext ==
    \/ \E size_kb \in 1..MaxSizeKb : GenCall(size_kb)
    \/ \E rnd \in Outcomes : GenIterate(rnd)
    \/ GenReturn

GenSpec == Init /\ [][GenNext]_vars

\* once called, the function runs: an enabled iteration or return is taken
GenLive ==
    GenSpec /\ WF_vars(\E rnd \in Outcomes : GenIterate(rnd)) /\ WF_vars(GenReturn)

(***************************************************************************)
(* The command line: main runs the whole pipeline.                         *)
(***************************************************************************)
DEFAULT_BATCH_SIZE == 3

\* argv as parsed: the values given to --sizes and --edits (an empty list is the
\* flag with no value; two edit counts are given in ascending order), --batch,
\* and the value of --batch-size
SizeChoices == (0 - 1)..MaxSizeKb
SizeLists ==
    {<<>>} \cup {<<a>> : a \in SizeChoices} \cup {<<a, b>> : a, b \in SizeChoices}
BatchSizes == (0 - 1)..MaxBatch
MainEditLists ==
    {<<>>} \cup {e \in EditLists : Len(e) = 1 \/ e[1] <= e[2]}
Argvs ==
    {[sizes |-> sz, edits |-> ed, batch |-> b, batch_size |-> bs] :
        sz \in SizeLists, ed \in MainEditLists, b \in BOOLEAN, bs \in BatchSizes}

\* for test_case in test_cases, from 1-based index k on; an exception of the
\* Batch Splitter ends the loop and main
RECURSIVE MainBatches(_, _, _, _)
MainBatches(st, cases, batch_size, k) ==
    IF k > Len(cases) \/ st.err # "none" THEN st
    ELSE IF cases[k].num_edits > batch_size
        THEN LET r == create_batched_test_files(st.w, cases[k], batch_size, BATCH_DIR)
             IN  MainBatches(
                     [w |-> r.w, batched_test_cases |-> st.batched_test_cases \o r.ret,
                      err |-> r.err],
                     cases, batch_size, k + 1)
    ELSE MainBatches(st, cases, batch_size, k + 1)

\* the result is the file system main leaves, what its calls returned and how it
\* ended: "none", or the exception that ended it
main(w, argv, rnds) ==
    IF argv.sizes = <<>> \/ argv.edits = <<>>
        \* nargs="+": argparse reports the missing value and exits
        THEN [w |-> w, files |-> <<>>, patterns |-> <<>>, test_cases |-> <<>>,
              batched_test_cases |-> <<>>, err |-> "SystemExit"]
    ELSE LET f == create_test_files(w, argv.sizes, SOURCE_DIR, rnds)
             pats == create_edit_patterns(argv.edits)
             inj == inject_patterns_into_files(f.w, f.ret, pats, PATTERN_DIR)
             b == IF argv.batch
                      THEN MainBatches([w |-> inj.w, batched_test_cases |-> <<>>,
                                        err |-> "none"],
                                       inj.ret, argv.batch_size, 1)
                      ELSE [w |-> inj.w, batched_test_cases |-> <<>>, err |-> "none"]
         IN  [w |-> b.w, files |-> f.ret, patterns |-> pats, test_cases |-> inj.ret,
              batched_test_cases |-> b.batched_test_cases, err |-> b.err]

Main(argv, rnds) ==
    /\ stage = "start"
    /\ \E r \in {main(World, argv, rnds)} :
           /\ fs' = r.w.fs
           /\ dirs' = r.w.dirs
           /\ log' = r.w.log
           /\ files' = r.files
           /\ patterns' = r.patterns
           /\ test_cases' = r.test_cases
           /\ call' = [op |-> "main", argv |-> argv,
                       batched_test_cases |-> r.batched_test_cases, err |-> r.err]
    /\ stage' = "exited"
    /\ UNCHANGED gen

MainNext ==
    \E argv \in Argvs, rnd \in {Shortest, Longest} :
        /\ argv.batch \/ argv.batch_size = DEFAULT_BATCH_SIZE
        /\ Main(argv, [k \in 1..Len(argv.sizes) |-> rnd])

MainSpec == Init /\ [][MainNext]_vars

(***************************************************************************)
(* Properties of the file operations.                                      *)
(***************************************************************************)
\* the marker ids 0..n-1 in order
Ids(n) == [i \in 1..n |-> i - 1]

\* the source content the Injector read for the test cases
SourceContent == fs[files[1][1]]

\* s ends with suf
EndsWith(s, suf) ==
    Len(s) >= Len(suf) /\ SubSeq(s, Len(s) - Len(suf) + 1, Len(s)) = suf

\* the last call was a call of the Batch Splitter that returned batch records
Batched == stage = "batched" /\ call.err = "none"
IsBatchRecord(r) == "batch_markers" \in DOMAIN r

\* C1: after the Injector has run, scanning the file of every test case for START
\* delimiters recovers exactly the ids 0..num_edits-1, each once.
C1_RoundTrip ==
    stage = "injected" =>
        \A k \in 1..Len(test_cases) :
            MarkersOf(fs[test_cases[k].filename]) = Ids(test_cases[k].num_edits)

\* C2: after the Injector has run, removing the inserted block of every id of the
\* pattern from the file of a test case gives back the source content.
C2_InjectionPreservesContent ==
    stage = "injected" =>
        \A k \in 1..Len(test_cases) :
            RemoveMarkers(fs[test_cases[k].filename], Ids(test_cases[k].num_edits), 1)
                = SourceContent

\* C5: the file of every batch record holds the START and the END delimiter of
\* every id of its batch_markers and of no other id, num_edits of them, and at
\* least one.
C5_BatchKeepsItsMarkers ==
    Batched =>
        \A j \in 1..Len(call.ret) :
            IsBatchRecord(call.ret[j]) =>
                LET rec == call.ret[j]
                    c == fs[rec.filename]
                IN  /\ \A i \in 0..MaxEdits :
                          /\ Contains(c, MARKER_START(i)) <=> InList(rec.batch_markers, i)
                          /\ Contains(c, MARKER_END(i)) <=> InList(rec.batch_markers, i)
                    /\ Len(MarkersOf(c)) = rec.num_edits
                    /\ rec.num_edits > 0

\* the markers the file handed to the last Batch Splitter call holds
CallMarkers == MarkersOf(fs[call.test_case.filename])

\* the elements of a list
Elems(l) == {l[k] : k \in 1..Len(l)}

\* C3: for a file holding k markers and 1 <= m < k the Batch Splitter returns
\* ceil(k/m) records in order; record j has the j-th consecutive slice of length m
\* of the sorted markers (the last may be shorter), num_edits the slice's length,
\* a filename ending _batch{j}.md and a pattern_name ending _batch{j}; the slices
\* are pairwise disjoint and their union is the k markers.
C3_BatchPartition ==
    Batched =>
        LET k == Len(CallMarkers)
            m == call.max_edits_per_batch
            ret == call.ret
        IN  (1 <= m /\ m < k) =>
                /\ Len(ret) = (k + m - 1) \div m
                /\ \A j \in 1..Len(ret) :
                      /\ IsBatchRecord(ret[j])
                      /\ Len(ret[j].batch_markers) = (IF j * m <= k THEN m ELSE k - (j - 1) * m)
                      /\ \A x \in 1..Len(ret[j].batch_markers) :
                            ret[j].batch_markers[x] = CallMarkers[(j - 1) * m + x]
                      /\ ret[j].num_edits = Len(ret[j].batch_markers)
                      /\ EndsWith(ret[j].filename, "_batch" \o str(j) \o ".md")
                      /\ EndsWith(ret[j].pattern_name, "_batch" \o str(j))
                /\ \A i, j \in 1..Len(ret) :
                      i # j => Elems(ret[i].batch_markers) \cap Elems(ret[j].batch_markers) = {}
                /\ UNION {Elems(ret[j].batch_markers) : j \in 1..Len(ret)} = Elems(CallMarkers)

\* three markers split by two: a full batch and a shorter last one
C3_Witness ==
    /\ Batched
    /\ Len(CallMarkers) = 3
    /\ call.max_edits_per_batch = 2
    /\ Len(call.ret) = 2
    /\ call.ret[1].batch_markers = <<0, 1>>
    /\ call.ret[2].batch_markers = <<2>>

\* C4: when the file holds k <= max_edits_per_batch markers the Batch Splitter
\* returns the one-element list of the test case it was given, unchanged, writes
\* no file and changes no file's content.
C4_PassThrough ==
    [][(/\ stage = "injected"
        /\ stage' = "batched"
        /\ Len(MarkersOf(fs[call'.test_case.filename])) <= call'.max_edits_per_batch)
            => /\ call'.err = "none"
               /\ call'.ret = <<call'.test_case>>
               /\ call'.test_case \in Elems(test_cases)
               /\ ~IsBatchRecord(call'.ret[1])
               /\ fs' = fs
               /\ log' = log]_vars

\* a pass-through of a file whose marker count equals the batch size
C4_Witness ==
    /\ Batched
    /\ Len(CallMarkers) = call.max_edits_per_batch
    /\ call.ret = <<call.test_case>>

\* the text of s between the START and END delimiter of id i that enclose it
Payload(s, i) == SubSeq(s, Len(MARKER_START(i)) + 1, Len(s) - Len(MARKER_END(i)))

\* s is the START delimiter of id i, a payload, the END delimiter of id i, and
\* holds no other START or END delimiter
Delimited(s, i) ==
    /\ Occurs(s, MARKER_START(i), 1)
    /\ EndsWith(s, MARKER_END(i))
    /\ MarkersOf(s) = <<i>>
    /\ Count(s, "_END-->") = 1

\* C6: create_edit_patterns returns one pattern per count in input order; the
\* pattern for count n is named pattern_{n}_edits and has n replacement entries
\* with the marker ids 0..n-1 in order, each once; original and replacement of an
\* id hold the same delimiters of that id and differ in their payload.
C6_PatternBuilder ==
    call.op = "create_edit_patterns" =>
        /\ Len(patterns) = Len(call.num_edits)
        /\ \A k \in 1..Len(patterns) :
              LET n == call.num_edits[k]
                  reps == patterns[k].replacements
              IN  /\ patterns[k].name = "pattern_" \o str(n) \o "_edits"
                  /\ Len(reps) = n
                  /\ \A i \in 1..n :
                        /\ Delimited(reps[i].original, i - 1)
                        /\ Delimited(reps[i].replacement, i - 1)
                        /\ Payload(reps[i].original, i - 1)
                               # Payload(reps[i].replacement, i - 1)

\* two patterns built in the order asked for, the larger count first
C6_Witness ==
    /\ call.op = "create_edit_patterns"
    /\ call.num_edits = <<3, 1>>
    /\ Len(patterns) = 2
    /\ Len(patterns[1].replacements) = 3

(***************************************************************************)
(* Properties of the pipeline and of the Content Producer.                 *)
(***************************************************************************)
\* main got past the argument parser, so the Injector has run
Injected == call.op = "main" /\ call.err # "SystemExit"

\* the manifest row of file size size and edit count n
ExpectedRow(size, n) ==
    "| test_file_" \o str(size) \o "kb_pattern_" \o str(n) \o "_edits.md | "
        \o str(size) \o " | " \o str(n) \o " | pattern_" \o str(n) \o "_edits |\n"

\* the positions of path in the write log
Writes(path) == {k \in 1..Len(log) : log[k] = path}

\* C7: for F files and P patterns the Injector returns F*P records, files outer
\* and patterns inner: record f*P+p is file f with pattern p, with that pattern's
\* number of replacements and that file's size; the manifest is written once,
\* after the files of all pairs, and holds the header and one row per record in
\* that order with basename, size, num_edits and pattern name.
C7_InjectorOrderAndManifest ==
    Injected =>
        LET F == Len(files)
            P == Len(patterns)
            sizes == call.argv.sizes
            edits == call.argv.edits
            manifest == PATTERN_DIR \o "/test_cases.md"
        IN  /\ Len(test_cases) = F * P
            /\ \A f \in 0..(F - 1), p \in 0..(P - 1) :
                  LET tc == test_cases[f * P + p + 1]
                  IN  /\ tc.filename = PATTERN_DIR \o "/test_file_" \o str(sizes[f + 1])
                             \o "kb_" \o patterns[p + 1].name \o ".md"
                      /\ files[f + 1] = <<TestFilename(SOURCE_DIR, sizes[f + 1]), sizes[f + 1]>>
                      /\ tc.file_size_kb = files[f + 1][2]
                      /\ tc.num_edits = Len(patterns[p + 1].replacements)
                      /\ tc.num_edits = edits[p + 1]
                      /\ tc.pattern_name = patterns[p + 1].name
                      /\ log[F + f * P + p + 1] = tc.filename
            /\ Writes(manifest) = {F + F * P + 1}
            /\ fs[manifest] = ManifestHeader
                   \o Join("", [k \in 1..(F * P) |->
                                   ExpectedRow(sizes[(k - 1) \div P + 1],
                                               edits[((k - 1) % P) + 1])])

\* two files and two patterns: the third record is the second file with the first
\* pattern
C7_Witness ==
    /\ Injected
    /\ call.argv.sizes = <<0, 1>>
    /\ call.argv.edits = <<1, 3>>
    /\ Len(test_cases) = 4
    /\ test_cases[3].file_size_kb = 1
    /\ test_cases[3].num_edits = 1
    /\ Contains(fs[PATTERN_DIR \o "/test_cases.md"], ExpectedRow(1, 3))

\* C8: for every size_kb >= 1 and every outcome of the random draws the returned
\* string holds a heading marker, the opening token of a fenced code block and a
\* table delimiter.
C8_ConstructsPresent ==
    gen.pc = "done" =>
        /\ Contains(gen.ret, "#")
        /\ Contains(gen.ret, FENCE \o "python")
        /\ Contains(gen.ret, "|")

\* |a - b|
Distance(a, b) == IF a >= b THEN a - b ELSE b - a

\* C9: for every size_kb >= 1 and every outcome of the random draws the call
\* returns, and the returned string's length differs from size_kb * 1024 by less
\* than 5: the loop is left only with at least that many characters generated,
\* and the result is cut to that length.
C9_SizeWithinTolerance ==
    /\ [](gen.pc = "done" =>
            /\ Distance(Len(gen.ret), gen.size_kb * BYTES_PER_KB) < 5
            /\ gen.chars_generated >= gen.size_kb * BYTES_PER_KB
            /\ gen.size_kb >= 1)
    /\ (gen.pc = "loop" ~> gen.pc = "done")

\* a call that needed a second iteration and cut what it generated
C9_Witness ==
    /\ gen.pc = "done"
    /\ Len(gen.sections) >= 2
    /\ gen.chars_generated > gen.chars_needed
    /\ Len(gen.ret) = gen.size_kb * BYTES_PER_KB

\* a negative size, no edit count, or batching with a batch size below one
Invalid(argv) ==
    \/ \E k \in 1..Len(argv.sizes) : argv.sizes[k] < 0
    \/ argv.edits = <<>>
    \/ argv.batch /\ argv.batch_size <= 0

\* C10: given an invalid configuration main fails, and it has created no
\* directory and written no file.
C10_InvalidConfigRejected ==
    (call.op = "main" /\ Invalid(call.argv)) =>
        /\ call.err # "none"
        /\ dirs = {}
        /\ log = <<>>

(***************************************************************************)
(* Properties of the marker spans.                                         *)
(***************************************************************************)
\* the files the Injector and the Batch Splitter have written
MarkerFiles ==
    {test_cases[k].filename : k \in 1..Len(test_cases)}
        \cup (IF stage = "batched"
                  THEN {call.ret[j].filename : j \in 1..Len(call.ret)}
                  ELSE {})

\* c holds an intact START delimiter of id i with an intact END delimiter of id i
\* after it
Paired(c, i) ==
    \E p \in Occurrences(c, MARKER_START(i)) :
        \E q \in Occurrences(c, MARKER_END(i)) : q >= p + Len(MARKER_START(i))

\* C11: in every file the Injector or the Batch Splitter wrote, for every marker
\* id, an intact START delimiter occurs if and only if an intact END delimiter of
\* that id occurs later in the file.
C11_NoOrphanHalves ==
    \A path \in MarkerFiles :
        \A i \in 0..MaxEdits :
            /\ Contains(fs[path], MARKER_START(i)) <=> Paired(fs[path], i)
            /\ Contains(fs[path], MARKER_END(i)) <=> Paired(fs[path], i)

\* C12: during one run of the pipeline no file path is written more than once,
\* whatever lists of sizes and edit counts are passed, lists with duplicate
\* entries included; a file changes only by a write, so a path written once
\* keeps the content it was created with.
C12_WriteOnce ==
    call.op = "main" =>
        \A i, j \in 1..Len(log) : i # j => log[i] # log[j]

\* the lists that hold every element of S once
Orders(S) ==
    {o \in [1..Cardinality(S) -> S] : \A i, j \in 1..Cardinality(S) : i # j => o[i] # o[j]}

\* C13: for every file the Injector wrote and every set of its marker ids,
\* removing the blocks of those ids gives the same content in whatever order the
\* ids are taken.
C13_RemovalOrderIrrelevant ==
    stage = "injected" =>
        \A k \in 1..Len(test_cases) :
            \A S \in SUBSET (0..(test_cases[k].num_edits - 1)) :
                \A o1, o2 \in Orders(S) :
                    RemoveMarkers(fs[test_cases[k].filename], o1, 1)
                        = RemoveMarkers(fs[test_cases[k].filename], o2, 1)

\* c holds a START delimiter of some id with no END delimiter of that id after it
Malformed(c) ==
    \E i \in 0..MaxEdits : Contains(c, MARKER_START(i)) /\ ~Paired(c, i)

\* C14: when the file the Batch Splitter reads holds a START delimiter with no
\* matching END delimiter, the call reports an error, returns no record and
\* writes no batch file.
C14_MalformedSurfaced ==
    (stage = "batched" /\ Malformed(fs[call.test_case.filename])) =>
        /\ call.err # "none"
        /\ call.ret = <<>>
        /\ \A k \in 1..Len(log) : ~Occurs(log[k], BATCH_DIR \o "/", 1)

\* C15: every insert position (i+1)*chunk_size is at most the length of the
\* source content; when chunk_size is at least the length of every inserted
\* block, block i lies whole at offset (i+1)*chunk_size of the written file, at or
\* after the end of block i-1, every id has one START and one END delimiter, and
\* the scan finds the ids in ascending order.
C15_PlacementGuarantee ==
    stage = "injected" =>
        \A k \in 1..Len(test_cases) :
            LET n == test_cases[k].num_edits
                written == fs[test_cases[k].filename]
                chunk_size == Len(SourceContent) \div (n + 1)
                pos(i) == (i + 1) * chunk_size
            IN  /\ \A i \in 0..(n - 1) : pos(i) <= Len(SourceContent)
                /\ (\A i \in 0..(n - 1) : chunk_size >= Len(original(i)) + 4) =>
                       /\ \A i \in 0..(n - 1) :
                             /\ pos(i) + Len(Block(i)) <= Len(written)
                             /\ SubSeq(written, pos(i) + 1, pos(i) + Len(Block(i))) = Block(i)
                             /\ i > 0 => pos(i) >= pos(i - 1) + Len(Block(i - 1))
                             /\ Count(written, MARKER_START(i)) = 1
                             /\ Count(written, MARKER_END(i)) = 1
                       /\ MarkersOf(written) = Ids(n)
                       /\ ~Malformed(written)

\* three blocks one right after the other: the chunk size is the block length
C15_Witness ==
    /\ stage = "injected"
    /\ \E k \in 1..Len(test_cases) :
          /\ test_cases[k].num_edits = 3
          /\ Len(SourceContent) \div 4 = Len(Block(0))
          /\ MarkersOf(fs[test_cases[k].filename]) = <<0, 1, 2>>

====
